---- MODULE Spec2Model ----
(***************************************************************************)
(* Model of track.py: an interactive CamShift tracker.  The state is the   *)
(* module globals (frame, roi_points, input_mode), the locals of main()    *)
(* that live across loop iterations (roi_box, roi_hist, orig, top_left,    *)
(* bottom_right, grabbed, key), the two external collaborators (the        *)
(* capture device and the HighGUI window) and the position of main().      *)
(*                                                                         *)
(* Optional values are encoded as sequences: None is <<>> and a present    *)
(* value v is <<v>> (roi_box, being a 4-tuple, is <<>> or <<l,t,r,b>>).    *)
(***************************************************************************)
EXTENDS Integers, Sequences, FiniteSets, TLC

VARIABLES
    frame,        \* global frame: None or <<[idx, marks, outline]>>
    roi_points,   \* global roi_points: sequence of clicked points <<x, y>>
    input_mode,   \* global input_mode flag
    roi_box,      \* main(): None or the 4-tuple handed to cv2.CamShift
    roi_hist,     \* main(): None (unbound) or <<[img, region]>>
    orig,         \* main(): None (unbound) or <<copy of frame at 'i'>>
    top_left,     \* main(): None (unbound) or <<point>>
    bottom_right, \* main(): None (unbound) or <<point>>
    grabbed,      \* main(): result flag of the last camera.read()
    key,          \* main(): last value of cv2.waitKey(1) & 0xFF
    pc,           \* position of main(): read, track, show, poll, wait, done, crashed
    nread,        \* capture device: number of frames delivered so far
    camera,       \* capture device: "open" or "released"
    window,       \* HighGUI: "open" or "closed"
    shown,        \* HighGUI: None or <<frame last passed to imshow>>
    iters,        \* tracker: iterations of the search in the last cv2.CamShift call
    event,        \* observation: the input event consumed by the last step
    ops           \* observation: operations run since the last camera.read()

vars == <<frame, roi_points, input_mode, roi_box, roi_hist, orig, top_left,
          bottom_right, grabbed, key, pc, nread, camera, window, shown,
          iters, event, ops>>

-----------------------------------------------------------------------------
(* Bounds *)

\* largest x coordinate of a pixel (frame width is MaxX + 1)
MaxX == 2

\* largest y coordinate of a pixel (frame height is MaxY + 1)
MaxY == 1

\* the capture device delivers at most this many frames before end-of-stream
MaxFrames == 2

\* the centroid shift of a search first falls below epsilon at an iteration
\* in 1..IterCap, or not at all within IterCap iterations
IterCap == 12

-----------------------------------------------------------------------------
(* Values *)

None == <<>>

Some(v) == <<v>>

XS == 0..MaxX

YS == 0..MaxY

\* keys the window can report: ord("i"), ord("q"), any other key
Keys == {"i", "q", "x"}

NoEvent == <<"none", "">>

KeyEvent(k) == <<"key", k>>

ClickEvent(accepted) == <<"click", IF accepted THEN "accepted" ELSE "ignored">>

\* a frame as delivered by camera.read(): no circles, no outline drawn on it
NewFrame(i) == [idx |-> i, marks |-> {}, outline |-> FALSE]

-----------------------------------------------------------------------------
(* Box derivation, lines 113-116 *)

\* faulty variant of Sums: the coordinates are subtracted instead of added
Sums_Difference(pts) == [i \in 1..Len(pts) |-> pts[i][1] - pts[i][2]]

\* roi_points.sum(axis = 1)
Sums(pts) == [i \in 1..Len(pts) |-> pts[i][1] + pts[i][2]]

\* np.argmin: index of the first occurrence of the minimum
ArgMin(s) ==
    CHOOSE i \in 1..Len(s) :
        /\ \A j \in 1..Len(s) : s[i] <= s[j]
        /\ \A j \in 1..(i - 1) : s[j] > s[i]

\* np.argmax: index of the first occurrence of the maximum
ArgMax(s) ==
    CHOOSE i \in 1..Len(s) :
        /\ \A j \in 1..Len(s) : s[i] >= s[j]
        /\ \A j \in 1..(i - 1) : s[j] < s[i]

TopLeft(pts) == pts[ArgMin(Sums(pts))]

\* faulty variant of BottomRight: the last clicked point is taken
BottomRight_LastClick(pts) == pts[Len(pts)]

BottomRight(pts) == pts[ArgMax(Sums(pts))]

\* the tuple of line 128 for the clicked points
DeriveBox(pts) ==
    <<TopLeft(pts)[1], TopLeft(pts)[2], BottomRight(pts)[1], BottomRight(pts)[2]>>

-----------------------------------------------------------------------------
(* Model build, lines 120-128 *)

Max(a, b) == IF a >= b THEN a ELSE b

\* shape <<rows, cols>> of orig[tl[1]:br[1], tl[0]:br[0]]
RoiShape(tl, br) == <<Max(br[2] - tl[2], 0), Max(br[1] - tl[1], 0)>>

\* cv2.cvtColor raises on an empty image
RoiEmpty(tl, br) == RoiShape(tl, br)[1] = 0 \/ RoiShape(tl, br)[2] = 0

\* calcHist + normalize: a function of the pixels of the crop only
BuildHist(img, tl, br) == [img |-> img, region |-> <<tl[1], tl[2], br[1], br[2]>>]

-----------------------------------------------------------------------------
(* Tracker, line 92.  cv2.CamShift is an external collaborator: its result  *)
(* is the search window it was given, or that window slid to the left edge  *)
(* of the frame.                                                            *)

\* faulty variant of termination: the TERM_CRITERIA_COUNT flag is missing
termination_EpsOnly == [type |-> {"EPS"}, max_iter |-> 10, epsilon |-> 1]

\* line 65: (cv2.TERM_CRITERIA_EPS | cv2.TERM_CRITERIA_COUNT, 10, 1)
termination == [type |-> {"EPS", "COUNT"}, max_iter |-> 10, epsilon |-> 1]

\* centroid shift, in pixels, of every iteration of one search over a
\* likelihood map: at least one pixel before iteration n, none from n on
\* (n = 1 is the all-zero map; n = IterCap + 1 never settles within IterCap)
ShiftProfile(n) == [i \in 1..IterCap |-> IF i >= n THEN 0 ELSE 2]

\* the maps met by the Tracker: all-zero, settling at the second iteration,
\* settling at the last iteration considered, never settling
ShiftProfiles == {ShiftProfile(n) : n \in {1, 2, IterCap, IterCap + 1}}

\* the single termination predicate, checked after iteration i
Terminated(term, shift, i) ==
    \/ "EPS" \in term.type /\ shift[i] < term.epsilon
    \/ "COUNT" \in term.type /\ i >= term.max_iter

RECURSIVE SearchFrom(_, _, _)
\* iterations run by a search that is about to run iteration i
SearchFrom(term, shift, i) ==
    IF Terminated(term, shift, i) \/ i >= IterCap
    THEN i
    ELSE SearchFrom(term, shift, i + 1)

\* number of iterations of the iterative search of one Tracker step
SearchIterations(term, shift) == SearchFrom(term, shift, 1)

CamShift(win) == {win, <<0, win[2], win[3], win[4]>>}

-----------------------------------------------------------------------------
(* State after module load and the setup of main(), lines 11-13 and 30-66 *)

Init ==
    /\ frame = None
    /\ roi_points = <<>>
    /\ input_mode = FALSE
    /\ roi_box = None
    /\ roi_hist = None
    /\ orig = None
    /\ top_left = None
    /\ bottom_right = None
    /\ grabbed = FALSE
    /\ key = "none"
    /\ pc = "read"
    /\ nread = 0
    /\ camera = "open"
    /\ window = "open"
    /\ shown = None
    /\ iters = 0
    /\ event = NoEvent
    /\ ops = {}

-----------------------------------------------------------------------------
(* Mouse callback, lines 15-27 *)

\* faulty variant of select_roi: the input_mode test is missing
select_roi_NoModeTest(x, y) ==
    IF Len(roi_points) < 4
    THEN /\ roi_points' = Append(roi_points, <<x, y>>)
         /\ frame' = Some([frame[1] EXCEPT !.marks = @ \cup {<<x, y>>}])
         /\ shown' = frame'
         /\ event' = ClickEvent(TRUE)
    ELSE /\ UNCHANGED <<roi_points, frame, shown>>
         /\ event' = ClickEvent(FALSE)

\* faulty variant of select_roi: the len(roi_points) < 4 test is missing
select_roi_NoLimit(x, y) ==
    IF input_mode
    THEN /\ roi_points' = Append(roi_points, <<x, y>>)
         /\ frame' = Some([frame[1] EXCEPT !.marks = @ \cup {<<x, y>>}])
         /\ shown' = frame'
         /\ event' = ClickEvent(TRUE)
    ELSE /\ UNCHANGED <<roi_points, frame, shown>>
         /\ event' = ClickEvent(FALSE)

select_roi(x, y) ==
    IF input_mode /\ Len(roi_points) < 4
    THEN /\ roi_points' = Append(roi_points, <<x, y>>)
         /\ frame' = Some([frame[1] EXCEPT !.marks = @ \cup {<<x, y>>}])
         /\ shown' = frame'
         /\ event' = ClickEvent(TRUE)
    ELSE /\ UNCHANGED <<roi_points, frame, shown>>
         /\ event' = ClickEvent(FALSE)

\* HighGUI dispatches mouse callbacks from inside cv2.waitKey (lines 97, 110)
Click ==
    /\ pc \in {"poll", "wait"}
    /\ \E x \in XS, y \in YS : select_roi(x, y)
    /\ UNCHANGED <<input_mode, roi_box, roi_hist, orig, top_left, bottom_right,
                   grabbed, key, pc, nread, camera, window, ops, iters>>

-----------------------------------------------------------------------------
(* Main loop, lines 69-132, and cleanup, lines 135-136 *)

\* camera.release(); cv2.destroyAllWindows()
Cleanup ==
    /\ camera' = "released"
    /\ window' = "closed"
    /\ shown' = None
    /\ pc' = "done"

\* faulty variant of ReadFrame: the test of line 75 is missing
ReadFrame_AlwaysTrack ==
    /\ pc = "read"
    /\ nread < MaxFrames
    /\ grabbed' = TRUE
    /\ nread' = nread + 1
    /\ frame' = Some(NewFrame(nread + 1))
    /\ pc' = "track"
    /\ ops' = {}
    /\ iters' = iters
    /\ event' = NoEvent
    /\ UNCHANGED <<roi_points, input_mode, roi_box, roi_hist, orig, top_left,
                   bottom_right, key, camera, window, shown>>

\* lines 70-75 with grabbed = True
ReadFrame ==
    /\ pc = "read"
    /\ nread < MaxFrames
    /\ grabbed' = TRUE
    /\ nread' = nread + 1
    /\ frame' = Some(NewFrame(nread + 1))
    /\ pc' = IF roi_box # None THEN "track" ELSE "show"
    /\ ops' = {}
    /\ iters' = iters
    /\ event' = NoEvent
    /\ UNCHANGED <<roi_points, input_mode, roi_box, roi_hist, orig, top_left,
                   bottom_right, key, camera, window, shown>>

\* faulty variant of ReadEnd: the break of line 73 is missing
ReadEnd_NoBreak ==
    /\ pc = "read"
    /\ grabbed' = FALSE
    /\ frame' = None
    /\ ops' = {}
    /\ iters' = iters
    /\ event' = NoEvent
    /\ pc' = IF roi_box # None THEN "track" ELSE "show"
    /\ UNCHANGED <<roi_points, input_mode, roi_box, roi_hist, orig, top_left,
                   bottom_right, key, nread, camera, window, shown>>

\* faulty variant of ReadEnd: the loop is left without the cleanup
ReadEnd_NoCleanup ==
    /\ pc = "read"
    /\ grabbed' = FALSE
    /\ frame' = None
    /\ ops' = {}
    /\ iters' = iters
    /\ event' = NoEvent
    /\ pc' = "done"
    /\ UNCHANGED <<roi_points, input_mode, roi_box, roi_hist, orig, top_left,
                   bottom_right, key, nread, camera, window, shown>>

\* lines 70-73 with grabbed = False: break, then lines 135-136
ReadEnd ==
    /\ pc = "read"
    /\ grabbed' = FALSE
    /\ frame' = None
    /\ ops' = {}
    /\ iters' = iters
    /\ event' = NoEvent
    /\ Cleanup
    /\ UNCHANGED <<roi_points, input_mode, roi_box, roi_hist, orig, top_left,
                   bottom_right, key, nread>>

\* faulty variant of Track: the histogram is recomputed from the new window
Track_RebuildsHist ==
    /\ pc = "track"
    /\ \E w \in CamShift(roi_box) :
          /\ roi_box' = w
          /\ roi_hist' = Some([img |-> frame[1], region |-> w])
    /\ \E shift \in ShiftProfiles : iters' = SearchIterations(termination, shift)
    /\ frame' = Some([frame[1] EXCEPT !.outline = TRUE])
    /\ ops' = ops \cup {"track"}
    /\ event' = NoEvent
    /\ pc' = "show"
    /\ UNCHANGED <<roi_points, input_mode, orig, top_left,
                   bottom_right, grabbed, key, nread, camera, window, shown>>

\* lines 75-94: back projection, CamShift, outline drawn on the frame
Track ==
    /\ pc = "track"
    /\ \E w \in CamShift(roi_box) : roi_box' = w
    /\ \E shift \in ShiftProfiles : iters' = SearchIterations(termination, shift)
    /\ frame' = Some([frame[1] EXCEPT !.outline = TRUE])
    /\ ops' = ops \cup {"track"}
    /\ event' = NoEvent
    /\ pc' = "show"
    /\ UNCHANGED <<roi_points, input_mode, roi_hist, orig, top_left,
                   bottom_right, grabbed, key, nread, camera, window, shown>>

\* line 96
Show ==
    /\ pc = "show"
    /\ shown' = frame
    /\ ops' = ops \cup {"show"}
    /\ iters' = iters
    /\ event' = NoEvent
    /\ pc' = "poll"
    /\ UNCHANGED <<frame, roi_points, input_mode, roi_box, roi_hist, orig,
                   top_left, bottom_right, grabbed, key, nread, camera, window>>

\* faulty variant of KeySelect: the len(roi_points) < 4 test is missing
KeySelect_NoPointTest ==
    /\ pc = "poll"
    /\ key' = "i"
    /\ input_mode' = TRUE
    /\ orig' = frame
    /\ shown' = frame
    /\ ops' = ops \cup {"key"}
    /\ iters' = iters
    /\ event' = KeyEvent("i")
    /\ pc' = "wait"
    /\ UNCHANGED <<frame, roi_points, roi_box, roi_hist, top_left, bottom_right,
                   grabbed, nread, camera, window>>

\* faulty variant of KeySelect: the box is preset to the whole frame
KeySelect_PresetBox ==
    /\ pc = "poll"
    /\ Len(roi_points) < 4
    /\ key' = "i"
    /\ input_mode' = TRUE
    /\ orig' = frame
    /\ shown' = frame
    /\ roi_box' = <<0, 0, MaxX, MaxY>>
    /\ ops' = ops \cup {"key"}
    /\ iters' = iters
    /\ event' = KeyEvent("i")
    /\ pc' = "wait"
    /\ UNCHANGED <<frame, roi_points, roi_hist, top_left, bottom_right,
                   grabbed, nread, camera, window>>

\* lines 97-102 and 109: 'i' with fewer than 4 points enters the wait loop
KeySelect ==
    /\ pc = "poll"
    /\ Len(roi_points) < 4
    /\ key' = "i"
    /\ input_mode' = TRUE
    /\ orig' = frame
    /\ shown' = frame
    /\ ops' = ops \cup {"key"}
    /\ iters' = iters
    /\ event' = KeyEvent("i")
    /\ pc' = "wait"
    /\ UNCHANGED <<frame, roi_points, roi_box, roi_hist, top_left, bottom_right,
                   grabbed, nread, camera, window>>

\* faulty variant of KeyQuit: the elif branch of lines 131-132 is missing
KeyQuit_NoBreak ==
    /\ pc = "poll"
    /\ key' = "q"
    /\ ops' = ops \cup {"key"}
    /\ iters' = iters
    /\ event' = KeyEvent("q")
    /\ pc' = "read"
    /\ UNCHANGED <<frame, roi_points, input_mode, roi_box, roi_hist, orig,
                   top_left, bottom_right, grabbed, nread, camera, window, shown>>

\* lines 97, 131-132: 'q' breaks out of the loop, then lines 135-136
KeyQuit ==
    /\ pc = "poll"
    /\ key' = "q"
    /\ ops' = ops \cup {"key"}
    /\ iters' = iters
    /\ event' = KeyEvent("q")
    /\ Cleanup
    /\ UNCHANGED <<frame, roi_points, input_mode, roi_box, roi_hist, orig,
                   top_left, bottom_right, grabbed, nread>>

\* line 97 with no branch taken: timeout, another key, or 'i' with 4 points
KeyOther ==
    /\ pc = "poll"
    /\ \E k \in {"none", "x"} \cup (IF Len(roi_points) < 4 THEN {} ELSE {"i"}) :
          /\ key' = k
          /\ event' = IF k = "none" THEN NoEvent ELSE KeyEvent(k)
    /\ ops' = ops \cup {"key"}
    /\ iters' = iters
    /\ pc' = "read"
    /\ UNCHANGED <<frame, roi_points, input_mode, roi_box, roi_hist, orig,
                   top_left, bottom_right, grabbed, nread, camera, window, shown>>

\* faulty variant of WaitKeyAgain: the wait loop reads the next frame
WaitKeyAgain_ReadsFrame ==
    /\ pc = "wait"
    /\ Len(roi_points) < 4
    /\ nread < MaxFrames
    /\ \E k \in Keys : event' = KeyEvent(k)
    /\ nread' = nread + 1
    /\ frame' = Some(NewFrame(nread + 1))
    /\ shown' = frame'
    /\ UNCHANGED <<roi_points, input_mode, roi_box, roi_hist, orig,
                   top_left, bottom_right, grabbed, key, pc, camera,
                   window, ops, iters>>

\* lines 108-110: cv2.waitKey(0) returns while fewer than 4 points are present
WaitKeyAgain ==
    /\ pc = "wait"
    /\ Len(roi_points) < 4
    /\ \E k \in Keys : event' = KeyEvent(k)
    /\ shown' = frame
    /\ UNCHANGED <<frame, roi_points, input_mode, roi_box, roi_hist, orig,
                   top_left, bottom_right, grabbed, key, pc, nread, camera,
                   window, ops, iters>>

\* faulty variant of WaitKeyDone: any key ends the wait loop once a point exists
WaitKeyDone_AnyCount ==
    /\ pc = "wait"
    /\ Len(roi_points) >= 1
    /\ \E k \in Keys : event' = KeyEvent(k)
    /\ top_left' = Some(TopLeft(roi_points))
    /\ bottom_right' = Some(BottomRight(roi_points))
    /\ IF RoiEmpty(TopLeft(roi_points), BottomRight(roi_points))
       THEN /\ pc' = "crashed"
            /\ UNCHANGED <<roi_hist, roi_box>>
       ELSE /\ roi_hist' = Some(BuildHist(orig[1], TopLeft(roi_points),
                                          BottomRight(roi_points)))
            /\ roi_box' = DeriveBox(roi_points)
            /\ pc' = "read"
    /\ UNCHANGED <<frame, roi_points, input_mode, orig, grabbed, key, nread,
                   camera, window, shown, ops, iters>>

\* lines 108-128: cv2.waitKey(0) returns with 4 points present
WaitKeyDone ==
    /\ pc = "wait"
    /\ Len(roi_points) >= 4
    /\ \E k \in Keys : event' = KeyEvent(k)
    /\ top_left' = Some(TopLeft(roi_points))
    /\ bottom_right' = Some(BottomRight(roi_points))
    /\ IF RoiEmpty(TopLeft(roi_points), BottomRight(roi_points))
       THEN /\ pc' = "crashed"
            /\ UNCHANGED <<roi_hist, roi_box>>
       ELSE /\ roi_hist' = Some(BuildHist(orig[1], TopLeft(roi_points),
                                          BottomRight(roi_points)))
            /\ roi_box' = DeriveBox(roi_points)
            /\ pc' = "read"
    /\ UNCHANGED <<frame, roi_points, input_mode, orig, grabbed, key, nread,
                   camera, window, shown, ops, iters>>

Next ==
    \/ ReadFrame
    \/ ReadEnd
    \/ Track
    \/ Show
    \/ Click
    \/ KeySelect
    \/ KeyQuit
    \/ KeyOther
    \/ WaitKeyAgain
    \/ WaitKeyDone

Spec == Init /\ [][Next]_vars

-----------------------------------------------------------------------------
(* Session state of the controller *)

SessionState ==
    CASE pc = "done"    -> "terminal"
      [] pc = "crashed" -> "crashed"
      [] pc = "wait"    -> "Selecting"
      [] OTHER          -> IF roi_box = None THEN "NoTarget" ELSE "Tracking"

TypeOK ==
    /\ input_mode \in BOOLEAN
    /\ grabbed \in BOOLEAN
    /\ pc \in {"read", "track", "show", "poll", "wait", "done", "crashed"}
    /\ nread \in 0..MaxFrames
    /\ camera \in {"open", "released"}
    /\ window \in {"open", "closed"}
    /\ key \in Keys \cup {"none"}
    /\ \A i \in 1..Len(roi_points) : roi_points[i] \in XS \X YS

-----------------------------------------------------------------------------
(* Properties *)

\* the four corners of the upright rectangle (x1, y1)-(x2, y2)
Corners(x1, y1, x2, y2) == {<<x1, y1>>, <<x1, y2>>, <<x2, y1>>, <<x2, y2>>}

\* pts lists the four corners of the rectangle, in some order
IsCornersOf(pts, x1, y1, x2, y2) ==
    /\ Len(pts) = 4
    /\ {pts[i] : i \in 1..4} = Corners(x1, y1, x2, y2)

\* the points of pts, taken in the order p
Permute(pts, p) == [i \in 1..Len(pts) |-> pts[p[i]]]

\* the selection has been completed: lines 113-116 have run
Derived == top_left # None

\* C1 (as stated): for every 4 accepted click points the derived box
\* (top_left, bottom_right) has left <= right and top <= bottom.
C1_BoxOrdered ==
    Derived => /\ top_left[1][1] <= bottom_right[1][1]
               /\ top_left[1][2] <= bottom_right[1][2]

\* C1 (amended): for every 4 accepted click points the derived box has
\* left + top <= right + bottom, hence left <= right or top <= bottom.
C1_BoxSumOrdered ==
    Derived => /\ top_left[1][1] + top_left[1][2]
                    <= bottom_right[1][1] + bottom_right[1][2]
               /\ \/ top_left[1][1] <= bottom_right[1][1]
                  \/ top_left[1][2] <= bottom_right[1][2]

\* a box with top > bottom has been derived from 4 accepted points
C1_Witness ==
    /\ Derived
    /\ Len(roi_points) = 4
    /\ top_left[1][2] > bottom_right[1][2]

\* C2: the derived box is the same for every order in which the 4 clicked
\* points could have been clicked.
C2_OrderInvariant ==
    Derived => \A p \in Permutations(1..Len(roi_points)) :
                   DeriveBox(Permute(roi_points, p)) = DeriveBox(roi_points)

\* C3 (as stated): a 'q' key press in NoTarget, Tracking or Selecting moves
\* the session to the terminal state.
C3_QuitAlwaysEnds ==
    [][(event' = KeyEvent("q")
          /\ SessionState \in {"NoTarget", "Tracking", "Selecting"})
       => SessionState' = "terminal"]_vars

\* C3 (amended): a 'q' key press in NoTarget or Tracking moves the session to
\* the terminal state; a 'q' pressed while Selecting never ends the session,
\* and with fewer than 4 points it leaves the session Selecting.
C3_QuitEndsOutsideSelection ==
    [][event' = KeyEvent("q")
       => IF SessionState \in {"NoTarget", "Tracking"}
          THEN SessionState' = "terminal"
          ELSE /\ SessionState = "Selecting"
               /\ SessionState' # "terminal"
               /\ Len(roi_points) < 4 => SessionState' = "Selecting"]_vars

\* 'q' has ended a session that was Tracking
C3_Witness ==
    /\ pc = "done"
    /\ event = KeyEvent("q")
    /\ key = "q"
    /\ roi_box # None

\* C4: after the box has been derived the point set is empty, until a new
\* selection session accepts a click.
C4_PointsCleared ==
    (Derived /\ pc # "wait") => Len(roi_points) = 0

\* C5: the point set always holds between 0 and 4 points; a 5th click in a
\* selection session is not accepted.
C5_AtMostFourPoints ==
    Len(roi_points) \in 0..4

\* a click has been rejected in a selection session that holds 4 points
C5_Witness ==
    /\ pc = "wait"
    /\ Len(roi_points) = 4
    /\ event = ClickEvent(FALSE)

\* C6: the point set changes only by a click appending one point while the
\* mode is Selecting and fewer than 4 points are held; a click in mode Idle
\* or on a full set changes neither the point set, the mode, the box nor the
\* model.
C6_ClickGuard ==
    [][/\ roi_points' # roi_points
            => /\ event'[1] = "click"
               /\ input_mode
               /\ Len(roi_points) < 4
               /\ \E x \in XS, y \in YS :
                      roi_points' = Append(roi_points, <<x, y>>)
       /\ (event'[1] = "click" /\ ~(input_mode /\ Len(roi_points) < 4))
            => UNCHANGED <<roi_points, input_mode, roi_box, roi_hist>>]_vars

\* a click has been ignored in mode Idle, before 'i' was ever pressed
C6_Witness ==
    /\ event = ClickEvent(FALSE)
    /\ ~input_mode
    /\ orig = None
    /\ roi_points = <<>>

\* C7: after the box has been derived the selection-mode flag is false,
\* until the select key is pressed again.
C7_ModeIdleAfterSelection ==
    (Derived /\ pc # "wait") => ~input_mode

\* C8: from Selecting the session moves only to Tracking or to the terminal
\* state.
C8_SelectingSuccessors ==
    [][SessionState = "Selecting"
       => SessionState' \in {"Selecting", "Tracking", "terminal"}]_vars

\* C9: when a read at the top of the loop fails, the session is terminal at
\* once: camera released, window closed, and no Tracker step, no render and
\* no key handling has run since that read.
C9_EndOfStreamEndsLoop ==
    (~grabbed /\ pc # "read")
        => /\ pc = "done"
           /\ ops = {}
           /\ camera = "released"
           /\ window = "closed"

\* the stream has ended while the session was Tracking
C9_Witness ==
    /\ ~grabbed
    /\ pc = "done"
    /\ roi_box # None
    /\ nread > 0

\* C10: when the 4 points are the corners of an upright rectangle with
\* x1 < x2 and y1 < y2, in any order, completing the selection sets the box
\* to (x1, y1, x2, y2).
C10_RectangleCorners ==
    [][top_left' # top_left
       => \A x1 \in XS, x2 \in XS, y1 \in YS, y2 \in YS :
              (x1 < x2 /\ y1 < y2 /\ IsCornersOf(roi_points, x1, y1, x2, y2))
                  => /\ roi_box' = <<x1, y1, x2, y2>>
                     /\ top_left' = Some(<<x1, y1>>)
                     /\ bottom_right' = Some(<<x2, y2>>)]_vars

\* a box has been derived from the corners clicked bottom-right first
C10_Witness ==
    /\ roi_points = <<<<MaxX, MaxY>>, <<0, MaxY>>, <<MaxX, 0>>, <<0, 0>>>>
    /\ roi_box = <<0, 0, MaxX, MaxY>>
    /\ top_left = Some(<<0, 0>>)
    /\ pc = "read"

\* C11: a model and a box exist only once a 4-point selection has been
\* completed, and a model once built stays; a session that ends while still
\* NoTarget, by 'q' or by end-of-stream, ends with no model and no box.
C11_ModelOnlyFromSelection ==
    /\ []((roi_hist # None \/ roi_box # None)
             => (Derived /\ Len(roi_points) = 4 /\ orig # None))
    /\ []((pc = "done" /\ ~Derived) => (roi_hist = None /\ roi_box = None))
    /\ [][roi_hist # None => roi_hist' # None]_vars

\* 'q' has ended a session that never left NoTarget
C11_Witness ==
    /\ pc = "done"
    /\ event = KeyEvent("q")
    /\ ~Derived
    /\ roi_hist = None
    /\ roi_box = None

\* C12: once built, the histogram never changes; a Tracking frame step
\* replaces the box and leaves the histogram, and the selection it was
\* built from, unchanged.
C12_ModelImmutable ==
    [][/\ roi_hist # None => roi_hist' = roi_hist
       /\ pc = "track"
            => /\ roi_hist # None
               /\ UNCHANGED <<roi_hist, orig, roi_points, top_left,
                              bottom_right, input_mode>>]_vars

\* a Tracker step has moved the box while the histogram is still the one
\* built from the snapshot and the derived box
C12_Witness ==
    /\ "track" \in ops
    /\ roi_box # DeriveBox(roi_points)
    /\ roi_hist = Some(BuildHist(orig[1], top_left[1], bottom_right[1]))

\* C13: when the derived box has zero width or zero height the session does
\* not crash: no model and no box are installed and the session is NoTarget
\* (or has ended from there).
C13_DegenerateBoxRejected ==
    (Derived /\ RoiEmpty(top_left[1], bottom_right[1]))
        => /\ pc # "crashed"
           /\ roi_hist = None
           /\ roi_box = None
           /\ SessionState \in {"NoTarget", "terminal"}

\* C14: a box is never present without a model; the Tracker runs on a frame
\* only with a box present, and a frame that is rendered has gone through a
\* Tracker step exactly when a box is present.
C14_TrackerIffBox ==
    /\ roi_box # None => roi_hist # None
    /\ pc = "track" => roi_box # None
    /\ pc \in {"show", "poll", "wait"} => ("track" \in ops <=> roi_box # None)

\* a frame has been rendered in NoTarget without a Tracker step
C14_Witness ==
    /\ pc = "poll"
    /\ roi_box = None
    /\ roi_hist = None
    /\ ops = {"show"}

\* C15: a key press received while Selecting with fewer than 4 points keeps
\* the session in the wait loop and produces no box and no model; the box is
\* derived and the model built only with exactly 4 points present.
C15_BoxOnlyFromFourPoints ==
    [][/\ (pc = "wait" /\ Len(roi_points) < 4 /\ event'[1] = "key")
            => /\ pc' = "wait"
               /\ UNCHANGED <<roi_box, roi_hist, top_left, bottom_right>>
       /\ (top_left' # top_left \/ (roi_box = None /\ roi_box' # None)
                                \/ roi_hist' # roi_hist)
            => /\ Len(roi_points) = 4
               /\ roi_points' = roi_points]_vars

\* a key other than 'i' has been pressed in the wait loop with 3 points held
C15_Witness ==
    /\ pc = "wait"
    /\ event = KeyEvent("x")
    /\ Len(roi_points) = 3
    /\ ~Derived
    /\ roi_box = None

\* C16: the capture device is released and the window closed exactly when
\* the session is terminal, in the step that makes it terminal; no step
\* follows, so neither happens twice and no frame is read afterwards.
C16_CleanupAtTerminal ==
    /\ [](pc = "done" <=> camera = "released")
    /\ [](pc = "done" <=> window = "closed")
    /\ [][/\ pc # "done"
          /\ (camera' # camera \/ window' # window)
               => /\ camera = "open" /\ camera' = "released"
                  /\ window = "open" /\ window' = "closed"
                  /\ pc' = "done"]_vars

\* the stream has ended, after some frames, in a session that was NoTarget
C16_Witness ==
    /\ pc = "done"
    /\ ~grabbed
    /\ nread > 0
    /\ roi_box = None
    /\ camera = "released"
    /\ window = "closed"

\* C17: every Tracker step ends after at least 1 and at most 10 iterations
\* of its search, whatever the likelihood map, and hands control back to the
\* main loop, which renders the frame next.
C17_TrackerStepEnds ==
    /\ [](iters <= 10)
    /\ [][pc = "track" => (pc' = "show" /\ iters' \in 1..10)]_vars

\* a Tracker step has been stopped by the iteration count
C17_Witness ==
    /\ pc = "show"
    /\ "track" \in ops
    /\ iters = 10

\* C18: once a selection has been completed no step enters Selecting again,
\* the model, the snapshot, the derived corners and the point set are never
\* assigned again, and the box changes only in a Tracker step.
C18_SingleSelection ==
    [][Derived
       => /\ pc' # "wait"
          /\ UNCHANGED <<roi_hist, orig, top_left, bottom_right, roi_points>>
          /\ roi_box' # roi_box => pc = "track"]_vars

\* 'i' has been pressed while Tracking and has not started a selection
C18_Witness ==
    /\ Derived
    /\ roi_box # None
    /\ event = KeyEvent("i")
    /\ key = "i"
    /\ pc = "read"

\* C19: while Selecting, the snapshot is the frame that was current at the
\* select key press, as read and without the circles of the clicks, and no
\* step reads a frame or changes the snapshot; the model is built from that
\* snapshot, and the first frame read after the selection is its successor.
C19_SelectionFreezesStream ==
    /\ [](pc = "wait" => orig = Some(NewFrame(nread)))
    /\ [](roi_hist # None => roi_hist[1].img = orig[1])
    /\ [][pc = "wait" => (nread' = nread /\ orig' = orig)]_vars
    /\ [][(pc = "read" /\ frame # None /\ frame[1].marks # {}
                       /\ nread' # nread)
          => frame'[1].idx = orig[1].idx + 1]_vars

\* the frame after the snapshot has been read and handed to the Tracker
C19_Witness ==
    /\ pc = "track"
    /\ roi_hist # None
    /\ roi_hist[1].img = orig[1]
    /\ frame = Some(NewFrame(orig[1].idx + 1))

====
